---- MODULE Spec2Model ----
(***************************************************************************)
(* Model of src/app.py: a Streamlit sales-management application backed by *)
(* four MongoDB collections (users, products, customers, sales) and one    *)
(* browser session (st.session_state.logged_in / .user, the Menu widget).  *)
(*                                                                         *)
(* Every action is one Streamlit script run triggered by one widget        *)
(* interaction (a button click or a menu selection).  The collections are  *)
(* shared with other sessions of the same deployment, so an id handed to a *)
(* data-layer function may name a record that is no longer stored; the id  *)
(* inputs therefore range over every id the store can have issued.         *)
(*                                                                         *)
(* Encodings.  ObjectIds are positive integers issued in increasing order  *)
(* and never reused.  Money amounts are integers (whole currency units).   *)
(* A username is a sequence of chunks, where the chunk " " is whitespace   *)
(* and any other chunk is a run of non-whitespace characters, so that      *)
(* str.strip() is modelled by what it does.  A value that may be None is a *)
(* sequence of length 0 (None) or 1.                                       *)
(*                                                                         *)
(* Spec is the session run by run, every handler running to completion.    *)
(* SpecReports starts it from stored sales drawn from bounded sets, to     *)
(* exercise the Reports page.  SpecRace runs insert_sale calls of several  *)
(* sessions statement by statement against the shared store.               *)
(***************************************************************************)
EXTENDS Integers, Sequences, FiniteSets, TLC

VARIABLES
    users,      \* users collection: sequence of user documents, in insertion order
    products,   \* products collection: function ObjectId -> product document
    customers,  \* customers collection: function ObjectId -> customer document
    sales,      \* sales collection: sequence of sale documents, in insertion order
    nextProd,   \* next ObjectId the store issues for a product
    nextCust,   \* next ObjectId the store issues for a customer
    logged_in,  \* st.session_state.logged_in
    user,       \* st.session_state.user: <<>> (None) or <<user document>>
    menu,       \* value of the sidebar "Menu" selectbox
    result,     \* outcome of the latest handler: [status, id]
    runs,       \* number of script runs (handled interactions) so far
    byprod,     \* the "Sales by Product" frame the page shows, <<>> if none
    calls       \* insert_sale calls in flight: call -> its position and locals

vars == <<users, products, customers, sales, nextProd, nextCust,
          logged_in, user, menu, result, runs, byprod, calls>>

store == <<users, products, customers, sales, nextProd, nextCust>>

-----------------------------------------------------------------------------
(* Bounds of the model *)

\* Script runs explored from the initial state
MaxRuns == 6

\* Sale documents the sales collection may hold
MaxSales == 2

\* Sale documents the store holds when the Reports page is exercised
MaxReportSales == 3

\* insert_sale calls running against the store at the same time
MaxCalls == 2

-----------------------------------------------------------------------------
(* Inputs typed into the widgets *)

Roles == {"user", "admin"}

UsernameInputs == { <<"admin">>, <<"amit">>, <<" ", "admin">>, <<"eve", " ">> }

PasswordInputs == {"adminpass", "pass123"}

NewUserNames == {"Eve"}

NewUserPasswords == {"pass123"}

ProductNameInputs == {"", "Cap"}

ProductSkuInputs == {"CAP-001"}

ProductPriceInputs == {0}

ProductStockInputs == {0}

ProductUpdates == { [name |-> "Tee", stock |-> 1] }

CustomerNameInputs == {"", "Riya"}

CustomerUpdates == { [name |-> "Amit P."] }

QuantityInputs == {1, 101}

UnitPriceInputs == {-5, 10}

\* Ids a caller can hold: every id issued so far, and one that never was
ProductIds == 1..nextProd

CustomerIds == 1..nextCust

-----------------------------------------------------------------------------
(* Outcomes *)

Ok(id) == [status |-> "ok", id |-> id]

Err(e) == [status |-> e, id |-> 0]

-----------------------------------------------------------------------------
(* String helper: str.strip() *)

RECURSIVE lstrip(_)
lstrip(s) == IF s # <<>> /\ Head(s) = " " THEN lstrip(Tail(s)) ELSE s

RECURSIVE rstrip(_)
rstrip(s) == IF s # <<>> /\ s[Len(s)] = " " THEN rstrip(SubSeq(s, 1, Len(s) - 1)) ELSE s

strip(s) == rstrip(lstrip(s))

-----------------------------------------------------------------------------
(* Auth functions *)

\* users_coll.find_one({"username": username}): the first matching document
fetch_user_by_username(us, username) ==
    LET hits == {i \in 1..Len(us) : us[i].username = username}
    IN  IF hits = {} THEN <<>>
        ELSE <<us[CHOOSE i \in hits : \A j \in hits : i <= j]>>

verify_credentials(us, username, password) ==
    LET u == fetch_user_by_username(us, username)
    IN  IF u = <<>> THEN <<>>
        ELSE IF u[1].password = password THEN u
        ELSE <<>>

\* Mutant of create_user: no check for an existing username
create_user_unchecked(us, name, username, password, role) ==
    <<Append(us, [name |-> name, username |-> username,
                  password |-> password, role |-> role]),
      Ok(Len(us) + 1)>>

\* create_user: <<users collection afterwards, outcome>>
create_user(us, name, username, password, role) ==
    IF fetch_user_by_username(us, username) # <<>>
    THEN <<us, Err("DuplicateUsername")>>
    ELSE <<Append(us, [name |-> name, username |-> username,
                       password |-> password, role |-> role]),
           Ok(Len(us) + 1)>>

-----------------------------------------------------------------------------
(* "Import Minimal Sample Users" and the first part of "Import Sample Data" *)

SampleAdmin == [name |-> "Admin User", username |-> <<"admin">>,
                password |-> "adminpass", role |-> "admin"]

SampleAmit == [name |-> "Amit Pandey", username |-> <<"amit">>,
               password |-> "pass123", role |-> "user"]

insert_if_absent(us, doc) ==
    IF fetch_user_by_username(us, doc.username) = <<>> THEN Append(us, doc) ELSE us

import_sample_users(us) == insert_if_absent(insert_if_absent(us, SampleAdmin), SampleAmit)

-----------------------------------------------------------------------------
(* CRUD functions: products *)

\* insert_product: <<products afterwards, next id afterwards, inserted id>>
insert_product(prods, next, name, sku, price, stock, description) ==
    LET doc == [name |-> name, sku |-> sku, price |-> price, stock |-> stock,
                description |-> description]
    IN  <<prods @@ (next :> doc), next + 1, next>>

\* update_one(filter, {"$set": updates}) on one document: the given fields are
\* overwritten, the others kept
set_fields(doc, updates) ==
    [f \in DOMAIN doc |-> IF f \in DOMAIN updates THEN updates[f] ELSE doc[f]]

\* update_one({"_id": id}, {"$set": updates}): no match, no change, no error
update_product(prods, prod_id, updates) ==
    IF prod_id \in DOMAIN prods
    THEN [prods EXCEPT ![prod_id] = set_fields(@, updates)]
    ELSE prods

\* Mutant of delete_product: the filter matches every document
delete_product_all(prods, prod_id) ==
    IF prod_id \in DOMAIN prods THEN <<>> ELSE prods

\* delete_one({"_id": id}): no match, no change, no error
delete_product(prods, prod_id) ==
    [i \in DOMAIN prods \ {prod_id} |-> prods[i]]

(* CRUD functions: customers *)

insert_customer(custs, next, name, email, phone, notes) ==
    LET doc == [name |-> name, email |-> email, phone |-> phone, notes |-> notes]
    IN  <<custs @@ (next :> doc), next + 1, next>>

update_customer(custs, cust_id, updates) ==
    IF cust_id \in DOMAIN custs
    THEN [custs EXCEPT ![cust_id] = set_fields(@, updates)]
    ELSE custs

delete_customer(custs, cust_id) ==
    [i \in DOMAIN custs \ {cust_id} |-> custs[i]]

-----------------------------------------------------------------------------
(* Sales *)

\* Mutant of sale_doc: the total is computed from the product's stored price
sale_doc_product_price(product, customer, product_id, customer_id, quantity, unit_price) ==
    [product_id |-> product_id,
     product_name |-> product.name,
     customer_id |-> customer_id,
     customer_name |-> customer.name,
     quantity |-> quantity,
     unit_price |-> unit_price,
     total |-> quantity * product.price]

\* The document insert_sale builds.  quantity and unit_price arrive as numbers
\* from st.number_input, on which int() and float() keep the value.  The
\* "date" field (the wall clock) is left out: no operation reads it back.
sale_doc(product, customer, product_id, customer_id, quantity, unit_price) ==
    [product_id |-> product_id,
     product_name |-> product.name,
     customer_id |-> customer_id,
     customer_name |-> customer.name,
     quantity |-> quantity,
     unit_price |-> unit_price,
     total |-> quantity * unit_price]

\* Mutant of decrement_stock: the stock is floored at zero
decrement_stock_floored(prods, product_id, quantity, updateFails) ==
    IF updateFails \/ product_id \notin DOMAIN prods
    THEN prods
    ELSE [prods EXCEPT ![product_id].stock = IF @ - quantity < 0 THEN 0 ELSE @ - quantity]

\* products_coll.update_one({"_id": id}, {"$inc": {"stock": -quantity}}) inside
\* try/except: on a store error nothing is written and the error is dropped
decrement_stock(prods, product_id, quantity, updateFails) ==
    IF updateFails \/ product_id \notin DOMAIN prods
    THEN prods
    ELSE [prods EXCEPT ![product_id].stock = @ - quantity]

\* Whether insert_sale raises ValueError("Invalid product or customer")
invalid_reference(prods, custs, product_id, customer_id) ==
    product_id \notin DOMAIN prods \/ customer_id \notin DOMAIN custs

\* Mutant of insert_sale: "if not product and not customer"; with one of the two
\* missing, building the document then fails on None.get
insert_sale_and(prods, custs, sls, product_id, customer_id, quantity, unit_price, updateFails) ==
    IF product_id \notin DOMAIN prods /\ customer_id \notin DOMAIN custs
    THEN <<prods, sls, Err("InvalidReference")>>
    ELSE IF invalid_reference(prods, custs, product_id, customer_id)
    THEN <<prods, sls, Err("AttributeError")>>
    ELSE <<decrement_stock(prods, product_id, quantity, updateFails),
           Append(sls, sale_doc(prods[product_id], custs[customer_id],
                                product_id, customer_id, quantity, unit_price)),
           Ok(Len(sls) + 1)>>

\* Mutant of insert_sale: the new document replaces the collection's last one
insert_sale_replacing(prods, custs, sls, product_id, customer_id, quantity, unit_price, updateFails) ==
    IF invalid_reference(prods, custs, product_id, customer_id)
    THEN <<prods, sls, Err("InvalidReference")>>
    ELSE LET doc == sale_doc(prods[product_id], custs[customer_id],
                             product_id, customer_id, quantity, unit_price)
             kept == IF sls = <<>> THEN sls ELSE SubSeq(sls, 1, Len(sls) - 1)
         IN  <<decrement_stock(prods, product_id, quantity, updateFails),
               Append(kept, doc),
               Ok(Len(kept) + 1)>>

\* insert_sale: <<products afterwards, sales afterwards, outcome>>
insert_sale(prods, custs, sls, product_id, customer_id, quantity, unit_price, updateFails) ==
    IF invalid_reference(prods, custs, product_id, customer_id)
    THEN <<prods, sls, Err("InvalidReference")>>
    ELSE LET doc == sale_doc(prods[product_id], custs[customer_id],
                             product_id, customer_id, quantity, unit_price)
         IN  <<decrement_stock(prods, product_id, quantity, updateFails),
               Append(sls, doc),
               Ok(Len(sls) + 1)>>

-----------------------------------------------------------------------------
(* Session and navigation *)

\* The options of the sidebar "Menu" selectbox
MenuOptions(role) ==
    {"Dashboard", "Products", "Customers", "Sales", "Reports", "User Profile",
     IF role = "admin" THEN "Admin Panel" ELSE ""}

\* Mutant of admin_panel: the branch tests the menu value only
admin_panel_any_role(m, role) == m = "Admin Panel"

\* The branch "elif menu == 'Admin Panel' and role == 'admin'"
admin_panel(m, role) == m = "Admin Panel" /\ role = "admin"

\* Mutant of login: the role chosen in "Login as" is not compared
login_any_role(us, username, password, role_choice) ==
    LET u == verify_credentials(us, strip(username), password)
    IN  IF u = <<>> THEN <<FALSE, <<>>, Err("InvalidCredentials")>>
        ELSE <<TRUE, u, Ok(0)>>

\* The "Log in" button: <<logged_in afterwards, user afterwards, outcome>>
login(us, username, password, role_choice) ==
    LET u == verify_credentials(us, strip(username), password)
    IN  IF u = <<>> THEN <<FALSE, <<>>, Err("InvalidCredentials")>>
        ELSE IF u[1].role # role_choice THEN <<FALSE, <<>>, Err("RoleMismatch")>>
        ELSE <<TRUE, u, Ok(0)>>

-----------------------------------------------------------------------------
(* "Import Sample Data": sample products, customers and one sale *)

SampleProducts ==
    << [name |-> "T-Shirt", sku |-> "TSH-001", price |-> 299, stock |-> 100,
        description |-> "Cotton T-Shirt"],
       [name |-> "Jeans", sku |-> "JNS-001", price |-> 1499, stock |-> 50,
        description |-> "Denim Jeans"],
       [name |-> "Sneakers", sku |-> "SNK-001", price |-> 2599, stock |-> 30,
        description |-> "Running Shoes"] >>

SampleCustomers ==
    << [name |-> "Amit Pandey", email |-> "amit@example.com",
        phone |-> "9876543210", notes |-> "VIP"],
       [name |-> "Riya Sharma", email |-> "riya@example.com",
        phone |-> "9123456780", notes |-> ""] >>

\* coll.find_one({field: value}): <<>> or <<id>> of the first matching document
find_one_by(coll, field, value) ==
    LET hits == {i \in DOMAIN coll : coll[i][field] = value}
    IN  IF hits = {} THEN <<>>
        ELSE <<CHOOSE i \in hits : \A j \in hits : i <= j>>

\* "for p in products: if not find_one({'sku': p['sku']}): insert_one(p)",
\* from the i-th sample on: <<collection afterwards, next id afterwards>>
RECURSIVE import_docs(_, _, _, _, _)
import_docs(coll, next, docs, field, i) ==
    IF i > Len(docs) THEN <<coll, next>>
    ELSE IF find_one_by(coll, field, docs[i][field]) = <<>>
         THEN import_docs(coll @@ (next :> docs[i]), next + 1, docs, field, i + 1)
         ELSE import_docs(coll, next, docs, field, i + 1)

\* The sale "Import Sample Data" inserts directly (no stock decrement)
import_sale(prods, custs, sls) ==
    LET p == find_one_by(prods, "sku", "TSH-001")
        c == find_one_by(custs, "email", "amit@example.com")
    IN  IF p # <<>> /\ c # <<>>
        THEN Append(sls, [product_id |-> p[1],
                          product_name |-> prods[p[1]].name,
                          customer_id |-> c[1],
                          customer_name |-> custs[c[1]].name,
                          quantity |-> 2,
                          unit_price |-> prods[p[1]].price,
                          total |-> 2 * prods[p[1]].price])
        ELSE sls

-----------------------------------------------------------------------------
(* Reports: sales.groupby('product_name')['total'].sum().reset_index()
            .sort_values(by='total', ascending=False) *)

\* The product names of the model in the order groupby sorts its keys
\* (by code point)
NameOrder == <<"A", "B", "C", "Cap", "Jeans", "Sneakers", "T-Shirt", "Tee">>

\* Series.sum() of column "total" over the rows of one group
RECURSIVE group_sum(_, _, _)
group_sum(sls, name, k) ==
    IF k > Len(sls) THEN 0
    ELSE (IF sls[k].product_name = name THEN sls[k].total ELSE 0)
         + group_sum(sls, name, k + 1)

\* groupby('product_name')['total'].sum().reset_index(): one row per key, in
\* key order
groupby_sum(sls) ==
    LET keys == {sls[k].product_name : k \in 1..Len(sls)}
        ordered == SelectSeq(NameOrder, LAMBDA n : n \in keys)
    IN  [j \in 1..Len(ordered) |->
            [product_name |-> ordered[j], total |-> group_sum(sls, ordered[j], 1)]]

\* One row put into rows already sorted by total, largest first
RECURSIVE insert_desc(_, _)
insert_desc(rows, r) ==
    IF rows = <<>> THEN <<r>>
    ELSE IF Head(rows).total >= r.total THEN <<Head(rows)>> \o insert_desc(Tail(rows), r)
    ELSE <<r>> \o rows

\* Mutant of sort_values: ascending order
RECURSIVE sort_values_ascending(_)
sort_values_ascending(rows) ==
    IF rows = <<>> THEN <<>>
    ELSE LET rest == sort_values_ascending(Tail(rows))
             lower == SelectSeq(rest, LAMBDA x : x.total <= Head(rows).total)
             upper == SelectSeq(rest, LAMBDA x : x.total > Head(rows).total)
         IN  lower \o <<Head(rows)>> \o upper

\* sort_values(by='total', ascending=False).  Rows of equal total come out in
\* an order pandas does not promise; nothing below depends on it.
RECURSIVE sort_values(_)
sort_values(rows) ==
    IF rows = <<>> THEN <<>>
    ELSE insert_desc(sort_values(Tail(rows)), Head(rows))

\* byprod of the Reports page
sales_by_product(sls) == sort_values(groupby_sum(sls))

-----------------------------------------------------------------------------
Init ==
    /\ users = <<>>
    /\ products = <<>>
    /\ customers = <<>>
    /\ sales = <<>>
    /\ nextProd = 1
    /\ nextCust = 1
    /\ logged_in = FALSE
    /\ user = <<>>
    /\ menu = "Dashboard"
    /\ result = Err("none")
    /\ runs = 0
    /\ byprod = <<>>
    /\ calls = <<>>

-----------------------------------------------------------------------------
\* One more script run, within the bound of the model
Run == runs < MaxRuns /\ runs' = runs + 1

\* What the run leaves on the page: on the Reports page of a logged-in session
\* the "Sales by Product" frame of the sales it listed (sls), unless there are
\* none.  The page is drawn after the sidebar's Log in / Log out and the page's
\* own buttons, and before the sidebar's "Import Sample Data".
Page(sls) ==
    byprod' = IF logged_in' /\ menu' = "Reports" /\ sls # <<>>
              THEN sales_by_product(sls)
              ELSE <<>>

(* Handlers of the logged-out page *)

LogIn(username, password, role_choice) ==
    /\ Run
    /\ ~logged_in
    /\ LET r == login(users, username, password, role_choice)
       IN  /\ logged_in' = r[1]
           /\ user' = r[2]
           /\ result' = r[3]
           \* The Menu widget is drawn again once logged in; src/app.py does not
           \* say whether its earlier selection survives, so both can happen.
           /\ IF r[1] THEN menu' \in {menu, "Dashboard"} ELSE menu' = menu
    /\ UNCHANGED store
    /\ Page(sales')
    /\ UNCHANGED calls

ImportMinimalSampleUsers ==
    /\ Run
    /\ ~logged_in
    /\ users' = import_sample_users(users)
    /\ result' = Ok(0)
    /\ UNCHANGED <<products, customers, sales, nextProd, nextCust, logged_in, user, menu>>
    /\ Page(sales')
    /\ UNCHANGED calls

(* Handlers of the logged-in page *)

LogOut ==
    /\ Run
    /\ logged_in
    /\ logged_in' = FALSE
    /\ user' = <<>>
    /\ result' = Ok(0)
    /\ UNCHANGED <<store, menu>>
    /\ Page(sales')
    /\ UNCHANGED calls

SelectMenu(m) ==
    /\ Run
    /\ logged_in
    /\ m \in MenuOptions(user[1].role)
    /\ menu' = m
    /\ result' = Ok(0)
    /\ UNCHANGED <<store, logged_in, user>>
    /\ Page(sales')
    /\ UNCHANGED calls

CreateProduct(name, sku, price, stock) ==
    /\ Run
    /\ logged_in /\ menu = "Products"
    /\ IF name = "" \/ sku = ""
       THEN /\ result' = Err("Required")
            /\ UNCHANGED <<products, nextProd>>
       ELSE LET r == insert_product(products, nextProd, name, sku, price, stock, "")
            IN  /\ products' = r[1]
                /\ nextProd' = r[2]
                /\ result' = Ok(r[3])
    /\ UNCHANGED <<users, customers, sales, nextCust, logged_in, user, menu>>
    /\ Page(sales')
    /\ UNCHANGED calls

UpdateProduct(prod_id, updates) ==
    /\ Run
    /\ logged_in /\ menu = "Products"
    /\ products' = update_product(products, prod_id, updates)
    /\ result' = Ok(0)
    /\ UNCHANGED <<users, customers, sales, nextProd, nextCust, logged_in, user, menu>>
    /\ Page(sales')
    /\ UNCHANGED calls

DeleteProduct(prod_id) ==
    /\ Run
    /\ logged_in /\ menu = "Products"
    /\ products' = delete_product(products, prod_id)
    /\ result' = Ok(0)
    /\ UNCHANGED <<users, customers, sales, nextProd, nextCust, logged_in, user, menu>>
    /\ Page(sales')
    /\ UNCHANGED calls

CreateCustomer(name) ==
    /\ Run
    /\ logged_in /\ menu = "Customers"
    /\ IF name = ""
       THEN /\ result' = Err("Required")
            /\ UNCHANGED <<customers, nextCust>>
       ELSE LET r == insert_customer(customers, nextCust, name, "", "", "")
            IN  /\ customers' = r[1]
                /\ nextCust' = r[2]
                /\ result' = Ok(r[3])
    /\ UNCHANGED <<users, products, sales, nextProd, logged_in, user, menu>>
    /\ Page(sales')
    /\ UNCHANGED calls

UpdateCustomer(cust_id, updates) ==
    /\ Run
    /\ logged_in /\ menu = "Customers"
    /\ customers' = update_customer(customers, cust_id, updates)
    /\ result' = Ok(0)
    /\ UNCHANGED <<users, products, sales, nextProd, nextCust, logged_in, user, menu>>
    /\ Page(sales')
    /\ UNCHANGED calls

DeleteCustomer(cust_id) ==
    /\ Run
    /\ logged_in /\ menu = "Customers"
    /\ customers' = delete_customer(customers, cust_id)
    /\ result' = Ok(0)
    /\ UNCHANGED <<users, products, sales, nextProd, nextCust, logged_in, user, menu>>
    /\ Page(sales')
    /\ UNCHANGED calls

\* "Save Sale": insert_sale inside try/except, which reports the ValueError
SaveSale(prod_id, cust_id, qty, price, updateFails) ==
    /\ Run
    /\ logged_in /\ menu = "Sales"
    /\ LET r == insert_sale(products, customers, sales, prod_id, cust_id, qty, price,
                            updateFails)
       IN  /\ Len(r[2]) <= MaxSales
           /\ products' = r[1]
           /\ sales' = r[2]
           /\ result' = r[3]
    /\ UNCHANGED <<users, customers, nextProd, nextCust, logged_in, user, menu>>
    /\ Page(sales')
    /\ UNCHANGED calls

\* "Create user" in the Admin Panel: create_user inside try/except
AdminCreateUser(name, username, password, role) ==
    /\ Run
    /\ logged_in /\ admin_panel(menu, user[1].role)
    /\ LET r == create_user(users, name, username, password, role)
       IN  /\ users' = r[1]
           /\ result' = r[2]
    /\ UNCHANGED <<products, customers, sales, nextProd, nextCust, logged_in, user, menu>>
    /\ Page(sales')
    /\ UNCHANGED calls

\* The sidebar button "Import Sample Data", drawn on every logged-in page
ImportSampleData ==
    /\ Run
    /\ logged_in
    /\ LET us == import_sample_users(users)
           ps == import_docs(products, nextProd, SampleProducts, "sku", 1)
           cs == import_docs(customers, nextCust, SampleCustomers, "email", 1)
           ss == import_sale(ps[1], cs[1], sales)
       IN  /\ Len(ss) <= MaxSales
           /\ users' = us
           /\ products' = ps[1]
           /\ nextProd' = ps[2]
           /\ customers' = cs[1]
           /\ nextCust' = cs[2]
           /\ sales' = ss
    /\ result' = Ok(0)
    /\ UNCHANGED <<logged_in, user, menu>>
    /\ Page(sales)
    /\ UNCHANGED calls

-----------------------------------------------------------------------------
Next ==
    \/ \E u \in UsernameInputs, p \in PasswordInputs, r \in Roles : LogIn(u, p, r)
    \/ ImportMinimalSampleUsers
    \/ LogOut
    \/ \E m \in MenuOptions("admin") \cup MenuOptions("user") : SelectMenu(m)
    \/ \E n \in ProductNameInputs, k \in ProductSkuInputs,
          p \in ProductPriceInputs, s \in ProductStockInputs : CreateProduct(n, k, p, s)
    \/ \E i \in ProductIds, u \in ProductUpdates : UpdateProduct(i, u)
    \/ \E i \in ProductIds : DeleteProduct(i)
    \/ \E n \in CustomerNameInputs : CreateCustomer(n)
    \/ \E i \in CustomerIds, u \in CustomerUpdates : UpdateCustomer(i, u)
    \/ \E i \in CustomerIds : DeleteCustomer(i)
    \/ \E i \in ProductIds, c \in CustomerIds, q \in QuantityInputs,
          p \in UnitPriceInputs, f \in BOOLEAN : SaveSale(i, c, q, p, f)
    \/ \E n \in NewUserNames, u \in UsernameInputs,
          p \in NewUserPasswords, r \in Roles : AdminCreateUser(n, u, p, r)
    \/ ImportSampleData

Spec == Init /\ [][Next]_vars

-----------------------------------------------------------------------------
(* The Reports page over stored sales drawn from bounded sets *)

\* Products and totals of the stored sales
ReportNames == {"A", "B", "C"}
ReportTotals == {25, 50, 100}

\* The Sale records insert_sale stores for one unit at price t of product n
ReportDocs ==
    {sale_doc([name |-> n], [name |-> "Amit Pandey"], 1, 1, 1, t) :
        n \in ReportNames, t \in ReportTotals}

\* An admin session over a store whose one product, renamed between sales, and
\* customer were deleted after the sales were recorded (a sale keeps the name
\* it was recorded with, nothing cascades)
InitReports ==
    /\ users = import_sample_users(<<>>)
    /\ products = <<>>
    /\ customers = <<>>
    /\ sales \in UNION {[1..n -> ReportDocs] : n \in 0..MaxReportSales}
    /\ nextProd = 2
    /\ nextCust = 2
    /\ logged_in = TRUE
    /\ user = <<SampleAdmin>>
    /\ menu = "Dashboard"
    /\ result = Ok(0)
    /\ runs = 0
    /\ byprod = <<>>
    /\ calls = <<>>

NextReports == \E m \in MenuOptions("admin") : SelectMenu(m)

SpecReports == InitReports /\ [][NextReports]_vars

-----------------------------------------------------------------------------
(* insert_sale statement by statement: calls made by several sessions, each
   a separate script run, share the store and interleave between their
   database operations.  Each operation on one document is atomic. *)

Calls == 1..MaxCalls

\* The store after "Import Sample Data" on an empty database
RaceProducts == import_docs(<<>>, 1, SampleProducts, "sku", 1)
RaceCustomers == import_docs(<<>>, 1, SampleCustomers, "email", 1)

\* Products the calls are made for: the first imported and one never stored
RaceProductInputs == {1, RaceProducts[2]}

\* Unit price typed into the Record Sale form
RaceUnitPrice == CHOOSE p \in UnitPriceInputs : p > 0

\* A call about to execute its first statement
new_call(product_id, customer_id, quantity, unit_price) ==
    [pc |-> "find_product",
     product_id |-> product_id, customer_id |-> customer_id,
     quantity |-> quantity, unit_price |-> unit_price,
     product |-> <<>>, customer |-> <<>>,
     inserted_id |-> 0, decremented |-> FALSE, outcome |-> Err("none")]

\* coll.find_one({"_id": id})
find_one(coll, id) == IF id \in DOMAIN coll THEN <<coll[id]>> ELSE <<>>

\* Mutant of stock_update: the stock written is computed from the product the
\* call read
stock_update_from_read(prods, product, product_id, quantity, updateFails) ==
    IF updateFails \/ product_id \notin DOMAIN prods
    THEN prods
    ELSE [prods EXCEPT ![product_id].stock = product.stock - quantity]

\* update_one({"_id": product_id}, {"$inc": {"stock": -quantity}}): the store
\* adds to the stock it holds; the product read by find_one is not used
stock_update(prods, product, product_id, quantity, updateFails) ==
    decrement_stock(prods, product_id, quantity, updateFails)

InitRace ==
    /\ users = import_sample_users(<<>>)
    /\ products = RaceProducts[1]
    /\ nextProd = RaceProducts[2]
    /\ customers = RaceCustomers[1]
    /\ nextCust = RaceCustomers[2]
    /\ sales = import_sale(RaceProducts[1], RaceCustomers[1], <<>>)
    /\ logged_in = TRUE
    /\ user = <<SampleAdmin>>
    /\ menu = "Sales"
    /\ result = Ok(0)
    /\ runs = 0
    /\ byprod = <<>>
    /\ calls \in [Calls -> {new_call(i, 1, q, RaceUnitPrice) :
                                i \in RaceProductInputs, q \in QuantityInputs}]

\* product = products_coll.find_one(...)
FindProduct(c) ==
    /\ calls[c].pc = "find_product"
    /\ calls' = [calls EXCEPT ![c].product = find_one(products, calls[c].product_id),
                              ![c].pc = "find_customer"]
    /\ UNCHANGED <<store, logged_in, user, menu, result, runs, byprod>>

\* customer = customers_coll.find_one(...); raise ValueError unless both found
FindCustomer(c) ==
    /\ calls[c].pc = "find_customer"
    /\ LET customer == find_one(customers, calls[c].customer_id)
       IN  calls' = IF calls[c].product = <<>> \/ customer = <<>>
                    THEN [calls EXCEPT ![c].customer = customer,
                                       ![c].outcome = Err("InvalidReference"),
                                       ![c].pc = "done"]
                    ELSE [calls EXCEPT ![c].customer = customer,
                                       ![c].pc = "insert_one"]
    /\ UNCHANGED <<store, logged_in, user, menu, result, runs, byprod>>

\* res = sales_coll.insert_one(doc), doc built from what the call read
InsertOne(c) ==
    /\ calls[c].pc = "insert_one"
    /\ sales' = Append(sales, sale_doc(calls[c].product[1], calls[c].customer[1],
                                       calls[c].product_id, calls[c].customer_id,
                                       calls[c].quantity, calls[c].unit_price))
    /\ calls' = [calls EXCEPT ![c].inserted_id = Len(sales) + 1,
                              ![c].pc = "update_one"]
    /\ UNCHANGED <<users, products, customers, nextProd, nextCust,
                   logged_in, user, menu, result, runs, byprod>>

\* try: products_coll.update_one(... $inc ...) except: pass; return res.inserted_id
UpdateOne(c, updateFails) ==
    /\ calls[c].pc = "update_one"
    /\ products' = stock_update(products, calls[c].product[1], calls[c].product_id,
                                calls[c].quantity, updateFails)
    /\ calls' = [calls EXCEPT ![c].decremented = ~updateFails,
                              ![c].outcome = Ok(calls[c].inserted_id),
                              ![c].pc = "done"]
    /\ UNCHANGED <<users, customers, sales, nextProd, nextCust,
                   logged_in, user, menu, result, runs, byprod>>

NextRace ==
    \/ \E c \in Calls : FindProduct(c)
    \/ \E c \in Calls : FindCustomer(c)
    \/ \E c \in Calls : InsertOne(c)
    \/ \E c \in Calls, f \in BOOLEAN : UpdateOne(c, f)

SpecRace == InitRace /\ [][NextRace]_vars

-----------------------------------------------------------------------------
(* Verification *)

SaleInputs == QuantityInputs \X UnitPriceInputs \X BOOLEAN

\* C1: every Save Sale on an existing product and customer appends the Sale and
\* returns its id; when the stock update succeeds the product's stock is its
\* previous value minus the quantity, with no floor at zero; when the stock
\* update fails the Sale is still appended and returned and no product changes.
C1_SaleStandsStockBestEffort ==
    [][\A i \in DOMAIN products, c \in DOMAIN customers, x \in SaleInputs :
         SaveSale(i, c, x[1], x[2], x[3])
         => /\ Len(sales') = Len(sales) + 1
            /\ SubSeq(sales', 1, Len(sales)) = sales
            /\ sales'[Len(sales')].product_id = i
            /\ sales'[Len(sales')].customer_id = c
            /\ result' = [status |-> "ok", id |-> Len(sales')]
            /\ DOMAIN products' = DOMAIN products
            /\ \A j \in DOMAIN products :
                 products'[j] = IF j = i /\ ~x[3]
                                THEN [products[j] EXCEPT !.stock = products[j].stock - x[1]]
                                ELSE products[j]]_vars

\* C1 witness: a sale larger than the stock has driven a product's stock below zero
C1_Witness ==
    /\ result.status = "ok"
    /\ \E k \in 1..Len(sales) :
         /\ sales[k].product_id \in DOMAIN products
         /\ products[sales[k].product_id].stock < 0

\* C2: Save Sale with a product id or a customer id that does not resolve fails
\* with InvalidReference and writes nothing: sales, products and customers are
\* the same afterwards.
C2_InvalidReferenceWritesNothing ==
    [][\A i \in ProductIds, c \in CustomerIds, x \in SaleInputs :
         ((i \notin DOMAIN products \/ c \notin DOMAIN customers) /\ SaveSale(i, c, x[1], x[2], x[3]))
         => /\ result'.status = "InvalidReference"
            /\ sales' = sales
            /\ products' = products
            /\ customers' = customers]_vars

\* C2 witness: a Save Sale has just failed with InvalidReference while the other
\* reference did resolve
C2_Witness ==
    /\ result.status = "InvalidReference"
    /\ (DOMAIN products # {} \/ DOMAIN customers # {})

\* C3: the Sale a successful Save Sale creates has the quantity and unit price
\* the caller supplied and total = quantity * unit price, whatever the product's
\* stored price is.
C3_TotalFromSuppliedPrice ==
    [][\A i \in ProductIds, c \in CustomerIds, x \in SaleInputs :
         (result'.status = "ok" /\ SaveSale(i, c, x[1], x[2], x[3]))
         => LET s == sales'[Len(sales')]
            IN  /\ s.quantity = x[1]
                /\ s.unit_price = x[2]
                /\ s.total = x[1] * x[2]]_vars

\* C3 witness: a stored Sale whose unit price differs from its product's price
C3_Witness ==
    \E k \in 1..Len(sales) :
        /\ sales[k].product_id \in DOMAIN products
        /\ sales[k].unit_price # products[sales[k].product_id].price
        /\ sales[k].total = sales[k].quantity * sales[k].unit_price
        /\ sales[k].total # sales[k].quantity * products[sales[k].product_id].price

\* C4: Save Sale with a quantity <= 0 or a negative unit price fails with
\* InvalidInput before any write, so every stored Sale has quantity > 0 and
\* unit_price >= 0.  (The code has no such check.)
C4_InvalidInputRejected ==
    /\ [][\A i \in ProductIds, c \in CustomerIds, x \in SaleInputs :
            (SaveSale(i, c, x[1], x[2], x[3]) /\ (x[1] <= 0 \/ x[2] < 0))
            => /\ result'.status = "InvalidInput"
               /\ sales' = sales
               /\ products' = products]_vars
    /\ [](\A k \in 1..Len(sales) : sales[k].quantity > 0 /\ sales[k].unit_price >= 0)

UsernameTaken(username) == \E k \in 1..Len(users) : users[k].username = username

UserInputs == NewUserNames \X UsernameInputs \X NewUserPasswords \X Roles

\* C5: Create user with a username a stored user already has fails with
\* DuplicateUsername and leaves the users collection as it was; and after any
\* sequence of Create user and sample-user imports no two stored users share a
\* username.
C5_UsernamesUnique ==
    /\ [][\A x \in UserInputs :
            (AdminCreateUser(x[1], x[2], x[3], x[4]) /\ UsernameTaken(x[2]))
            => (users' = users /\ result'.status = "DuplicateUsername")]_vars
    /\ [](\A j, k \in 1..Len(users) : users[j].username = users[k].username => j = k)

\* C5 witness: a Create user has just been refused as a duplicate
C5_Witness ==
    /\ result.status = "DuplicateUsername"
    /\ Len(users) >= 2

LoginInputs == UsernameInputs \X PasswordInputs \X Roles

\* Stored users with this username and password
Matching(username, password) ==
    {k \in 1..Len(users) : users[k].username = username /\ users[k].password = password}

\* What a login attempt must do, the supplied username being looked up as `name`
LoginOutcome(name, password, role_choice) ==
    LET cred == Matching(name, password)
        full == {k \in cred : users[k].role = role_choice}
    IN  /\ logged_in' <=> full # {}
        /\ full # {} => \E k \in full : user' = <<users[k]>>
        /\ (full = {} /\ cred # {}) => result'.status = "RoleMismatch"
        /\ cred = {} => result'.status = "InvalidCredentials"
        /\ full = {} => (~logged_in' /\ user' = <<>>)

\* C6 as stated: a login attempt logs the session in if and only if a stored
\* user has the supplied username, the supplied password and the claimed role;
\* matching credentials under another role fail with RoleMismatch, anything else
\* with InvalidCredentials, and a failed attempt leaves the session logged out
\* with no user.
C6_LoginIffStoredUser ==
    [][\A x \in LoginInputs :
         LogIn(x[1], x[2], x[3]) => LoginOutcome(x[1], x[2], x[3])]_vars

\* C6 as amended: the same, the supplied username being compared after its
\* leading and trailing whitespace is removed.
C6_LoginIffStrippedUsername ==
    [][\A x \in LoginInputs :
         LogIn(x[1], x[2], x[3]) => LoginOutcome(strip(x[1]), x[2], x[3])]_vars

\* C6 witness: an attempt with the right password under the wrong role was
\* refused with RoleMismatch
C6_Witness ==
    /\ result.status = "RoleMismatch"
    /\ ~logged_in
    /\ user = <<>>

\* C7: sales are append-only and immutable: every step keeps every stored Sale
\* in place with every field unchanged, and a Sale a step adds carries the names
\* its product and customer have at that instant.
C7_SalesAppendOnly ==
    [][/\ Len(sales') >= Len(sales)
       /\ SubSeq(sales', 1, Len(sales)) = sales
       /\ \A k \in (Len(sales) + 1)..Len(sales') :
            /\ sales'[k].product_id \in DOMAIN products'
            /\ sales'[k].customer_id \in DOMAIN customers'
            /\ sales'[k].product_name = products'[sales'[k].product_id].name
            /\ sales'[k].customer_name = customers'[sales'[k].customer_id].name]_vars

\* C7 witness: a stored Sale still carries the name its product had when it was
\* sold, the product having been renamed since
C7_Witness ==
    \E k \in 1..Len(sales) :
        /\ sales[k].product_id \in DOMAIN products
        /\ sales[k].product_name # products[sales[k].product_id].name

\* C8: an update of a product or customer whose id does not resolve fails with
\* NotFound and leaves the collection unchanged.  (The code reports success.)
C8_UpdateMissingIsNotFound ==
    [][/\ \A i \in ProductIds, u \in ProductUpdates :
            (UpdateProduct(i, u) /\ i \notin DOMAIN products)
            => (result'.status = "NotFound" /\ products' = products)
       /\ \A i \in CustomerIds, u \in CustomerUpdates :
            (UpdateCustomer(i, u) /\ i \notin DOMAIN customers)
            => (result'.status = "NotFound" /\ customers' = customers)]_vars

\* A collection without the document of one id
Without(coll, id) == [j \in DOMAIN coll \ {id} |-> coll[j]]

\* C9: delete is idempotent and does not cascade: deleting an id removes that
\* document and no other, deleting an id that is not stored succeeds and changes
\* nothing, and the sales (also those that reference the id) stay as they are.
C9_DeleteIdempotentNoCascade ==
    [][/\ \A i \in ProductIds :
            DeleteProduct(i)
            => /\ products' = Without(products, i)
               /\ i \notin DOMAIN products => products' = products
               /\ result'.status = "ok"
               /\ sales' = sales /\ customers' = customers
       /\ \A i \in CustomerIds :
            DeleteCustomer(i)
            => /\ customers' = Without(customers, i)
               /\ i \notin DOMAIN customers => customers' = customers
               /\ result'.status = "ok"
               /\ sales' = sales /\ products' = products]_vars

\* C9 witness: a product was deleted while another stays, and a stored Sale
\* references the deleted one
C9_Witness ==
    /\ DOMAIN products # {}
    /\ \E k \in 1..Len(sales) : sales[k].product_id \notin DOMAIN products

\* C10: Create user runs only in a session logged in as a stored admin, and the
\* identity set at login stays in force until Log out clears it.
C10_CreateUserOnlyByAdmin ==
    /\ [][(\E x \in UserInputs : AdminCreateUser(x[1], x[2], x[3], x[4]))
          => (logged_in /\ user # <<>> /\ user[1].role = "admin")]_vars
    /\ [][(logged_in /\ ~LogOut) => (logged_in' /\ user' = user)]_vars
    /\ [][LogOut => (~logged_in' /\ user' = <<>>)]_vars
    /\ [](logged_in => \E k \in 1..Len(users) : user = <<users[k]>>)
    /\ [](~logged_in => user = <<>>)

\* C10 witness: an admin is logged in and has created a user in the Admin Panel
C10_Witness ==
    /\ logged_in
    /\ user[1].role = "admin"
    /\ menu = "Admin Panel"
    /\ result.status = "ok"
    /\ \E k \in 1..Len(users) : users[k].name \in NewUserNames

-----------------------------------------------------------------------------
\* Sum of total over the sales at the positions in idx
RECURSIVE TotalOver(_)
TotalOver(idx) ==
    IF idx = {} THEN 0
    ELSE LET k == CHOOSE x \in idx : TRUE
         IN  sales[k].total + TotalOver(idx \ {k})

\* C11: for every set of stored sales, the Sales by Product frame of the
\* Reports page has exactly one row per distinct product_name, the row's value
\* is the sum of total over the sales with that product_name, and the rows are
\* in descending order of that sum.
C11_SalesByProductSums ==
    (logged_in /\ menu = "Reports" /\ sales # <<>>) =>
        LET names == {sales[k].product_name : k \in DOMAIN sales}
        IN  /\ \A n \in names :
                 Cardinality({j \in DOMAIN byprod : byprod[j].product_name = n}) = 1
            /\ \A j \in DOMAIN byprod :
                 /\ byprod[j].product_name \in names
                 /\ byprod[j].total =
                        TotalOver({k \in DOMAIN sales :
                                      sales[k].product_name = byprod[j].product_name})
            /\ \A j \in 1..(Len(byprod) - 1) : byprod[j].total >= byprod[j + 1].total

\* Sales (A,100), (B,50), (A,25) are reported as (A,125), (B,50)
C11_Witness ==
    /\ menu = "Reports"
    /\ Len(sales) = 3
    /\ sales[1].product_name = "A" /\ sales[1].total = 100
    /\ sales[2].product_name = "B" /\ sales[2].total = 50
    /\ sales[3].product_name = "A" /\ sales[3].total = 25
    /\ byprod = <<[product_name |-> "A", total |-> 125],
                  [product_name |-> "B", total |-> 50]>>

-----------------------------------------------------------------------------
\* Sum of the quantities of the calls in cs
RECURSIVE QuantityOver(_)
QuantityOver(cs) ==
    IF cs = {} THEN 0
    ELSE LET c == CHOOSE x \in cs : TRUE
         IN  calls[c].quantity + QuantityOver(cs \ {c})

\* Calls a and b have both returned a stored Sale for the same product, and
\* the stock decrement of both succeeded
BothSold(a, b) ==
    /\ a # b
    /\ calls[a].product_id = calls[b].product_id
    /\ \A c \in {a, b} :
         /\ calls[c].pc = "done"
         /\ calls[c].decremented
         /\ calls[c].inserted_id \in DOMAIN sales
         /\ sales[calls[c].inserted_id].product_id = calls[c].product_id
         /\ sales[calls[c].inserted_id].quantity = calls[c].quantity

\* C12 as stated: two interleaved insert_sale calls for the same product, with
\* both Sale records stored and both decrements succeeded, end with a stock
\* that differs from the initial stock minus the sum of the two quantities.
\* An outcome of such calls with the stock equal to that difference refutes
\* this formula; C12_NoLostUpdate shows that every outcome is one.
C12_LostUpdate ==
    \A a, b \in Calls :
        BothSold(a, b) =>
            products[calls[a].product_id].stock #
                RaceProducts[1][calls[a].product_id].stock
                    - (calls[a].quantity + calls[b].quantity)

\* C12, amended: however insert_sale calls interleave, no decrement is lost:
\* the stock of every product is its initial stock minus the sum of the
\* quantities of the calls whose decrement succeeded; in particular, when two
\* calls for one product have both stored their Sale and both decremented, the
\* final stock is the initial stock minus the sum of the two quantities.
C12_NoLostUpdate ==
    \A i \in DOMAIN products :
        products[i].stock =
            RaceProducts[1][i].stock
                - QuantityOver({c \in Calls : calls[c].product_id = i
                                               /\ calls[c].decremented})

\* Two calls for one product that both read the initial stock before either
\* decremented it, both stored their Sale and both decremented
C12_Witness ==
    \E a, b \in Calls :
        /\ BothSold(a, b)
        /\ \A c \in {a, b} :
             calls[c].product[1].stock = RaceProducts[1][calls[c].product_id].stock
        /\ calls[a].inserted_id # calls[b].inserted_id
        /\ products[calls[a].product_id].stock =
               RaceProducts[1][calls[a].product_id].stock
                   - (calls[a].quantity + calls[b].quantity)

=============================================================================
